---- MODULE Spec2Model ----
(***************************************************************************)
(* Model of the tradespace engine of tradespace_designer:                  *)
(*   TradespaceDesigner (src/tradespace.py)  - registry of performance     *)
(*       attributes, SAU / MAU computation, Pareto detection;              *)
(*   UAVTradespacer (src/uav_tradespace.py)  - generation of the design    *)
(*       table and the weight-sensitivity sweep;                           *)
(*   UAVModel (src/uav.py, src/uav_model.py)  - the propulsion model that  *)
(*       evaluates one design: hover, max thrust, max payload, range.      *)
(*                                                                         *)
(* Numbers.  The program computes with floats; the model computes with     *)
(* exact rationals <<n, d>> in lowest terms (d > 0), and                   *)
(* <<0, 0>> stands for NaN / a missing cell.  Every comparison with NaN    *)
(* is false, as in IEEE arithmetic and pandas.                             *)
(***************************************************************************)
EXTENDS Integers, Sequences, FiniteSets, TLC

VARIABLES
    performance_items,  \* TradespaceDesigner.performance_items (insertion-ordered dict)
    design_components,  \* TradespaceDesigner.design_components (insertion-ordered dict)
    tradespace_df,      \* TradespaceDesigner.tradespace_df
    uav_list,           \* UAVTradespacer.uav_list
    physics,            \* what UAVModel.calculate_performance yields for each design
    last_call,          \* the operation that ran last, with its flag arguments
    err,                \* how the last operation ended: "none" or the exception raised
    prev_run,           \* call, err and table of the generate_tradespace that the last call repeated
    returned,           \* what the last operation returned (NaN stands for None)
    solver_error        \* the message of the exception the solver raised in the last
                        \* operation, <<>> if it raised none

vars == <<performance_items, design_components, tradespace_df, uav_list,
          physics, last_call, err, prev_run, returned, solver_error>>

-----------------------------------------------------------------------------
(* Exact arithmetic standing in for the program's floats *)

NaN == <<0, 0>>

IsNaN(x) == x[2] = 0

RECURSIVE GCD(_, _)
GCD(a, b) == IF b = 0 THEN a ELSE GCD(b, a % b)

\* n/d with the common divisor g taken out
Lowest(n, d, g) == <<n \div g, d \div g>>

\* the rational n/d in lowest terms; x/0 is NaN (only 0/0 arises in the program)
Frac(n, d) == IF d = 0 THEN NaN ELSE Lowest(n, d, GCD(n, d))

Num(n) == <<n, 1>>

Zero == <<0, 1>>

One == <<1, 1>>

RAdd(x, y) ==
    IF IsNaN(x) \/ IsNaN(y) THEN NaN
    ELSE Frac(x[1] * y[2] + y[1] * x[2], x[2] * y[2])

\* the product of two fractions in lowest terms, g1 and g2 being the common divisors
\* across them: the result is in lowest terms
Cancelled(x, y, g1, g2) ==
    <<(x[1] \div g1) * (y[1] \div g2), (x[2] \div g2) * (y[2] \div g1)>>

\* x * y ; the common divisors across the two fractions are taken out before the
\* products are formed
RMul(x, y) ==
    IF IsNaN(x) \/ IsNaN(y) THEN NaN
    ELSE Cancelled(x, y, GCD(x[1], y[2]), GCD(y[1], x[2]))

\* x / y ; a zero divisor only meets a zero dividend in the program (0/0 = NaN);
\* the denominator stays positive
RDiv(x, y) ==
    IF IsNaN(x) \/ IsNaN(y) \/ y[1] = 0 THEN NaN
    ELSE RMul(x, IF y[1] < 0 THEN <<0 - y[2], 0 - y[1]>> ELSE <<y[2], y[1]>>)

\* x - y
RSub(x, y) ==
    IF IsNaN(x) \/ IsNaN(y) THEN NaN
    ELSE Frac(x[1] * y[2] - y[1] * x[2], x[2] * y[2])

RLt(x, y) == ~IsNaN(x) /\ ~IsNaN(y) /\ x[1] * y[2] < y[1] * x[2]

RLe(x, y) == ~IsNaN(x) /\ ~IsNaN(y) /\ x[1] * y[2] <= y[1] * x[2]

RGt(x, y) == RLt(y, x)

RGe(x, y) == RLe(y, x)

\* float == : NaN equals nothing, not even itself
REq(x, y) == ~IsNaN(x) /\ ~IsNaN(y) /\ x = y

\* a sequence given element by element, as the tuple of its elements
AsSeq(s) == SubSeq(s, 1, Len(s))

-----------------------------------------------------------------------------
(* Bounds of the model *)

\* raw performance values and attribute bounds range over 0..MaxValue
MaxValue == 2

\* registered weights are the multiples of 1/WeightSteps in [0,1]; the calls
\* also try the out-of-range weights -1/WeightSteps and (WeightSteps+1)/WeightSteps
WeightSteps == 2

\* names under which performance attributes are registered: columns of the table
Names == {"max_speed", "max_flight_time"}

Units == {"m/s", "min"}

Values == {Num(v) : v \in 0..MaxValue}

Weights == {Frac(k, WeightSteps) : k \in (-1)..(WeightSteps + 1)}

-----------------------------------------------------------------------------
(* TradespaceDesigner.add_performance_variable *)

RECURSIVE SumWeights(_)
SumWeights(items) ==
    IF items = <<>> THEN Zero
    ELSE RAdd(items[1].weight, SumWeights(Tail(items)))

HasName(items, name) == \E i \in 1..Len(items) : items[i].name = name

\* dict assignment: an existing key keeps its position, a new key goes last
DictSet(items, entry) ==
    IF HasName(items, entry.name)
    THEN AsSeq([i \in 1..Len(items) |->
            IF items[i].name = entry.name THEN entry ELSE items[i]])
    ELSE Append(items, entry)

\* variant: the sum of the registered weights is tested without the new weight
WeightTooHighStale(items, weight) == RGt(SumWeights(items), One)

\* the weight-sum check, made against every entry present, the re-registered one included
WeightTooHigh(items, weight) == RGt(RAdd(SumWeights(items), weight), One)

\* variant: the entry is stored before the weight-sum check is made
AddPerformanceVariableEarlyStore(items, name, min_value, max_value, units, weight) ==
    LET stored == DictSet(items, [name |-> name, min_value |-> min_value,
                                  max_value |-> max_value, units |-> units,
                                  weight |-> weight])
    IN IF RLt(max_value, min_value) THEN [items |-> items, err |-> "Exception"]
       ELSE IF RLt(weight, Zero) \/ RGt(weight, One)
            THEN [items |-> items, err |-> "Exception"]
       ELSE IF WeightTooHigh(items, weight) THEN [items |-> stored, err |-> "Exception"]
       ELSE [items |-> stored, err |-> "none"]

\* the outcome of the call: the items it leaves and the exception it raises
AddPerformanceVariable(items, name, min_value, max_value, units, weight) ==
    IF RLt(max_value, min_value) THEN [items |-> items, err |-> "Exception"]
    ELSE IF RLt(weight, Zero) \/ RGt(weight, One) THEN [items |-> items, err |-> "Exception"]
    ELSE IF WeightTooHigh(items, weight) THEN [items |-> items, err |-> "Exception"]
    ELSE [items |-> DictSet(items, [name |-> name, min_value |-> min_value,
                                     max_value |-> max_value, units |-> units,
                                     weight |-> weight]),
          err |-> "none"]

-----------------------------------------------------------------------------
(* TradespaceDesigner.get_attr_by_name, generate_design_tradespace *)

HasComponent(dc, name) == \E i \in 1..Len(dc) : dc[i].name = name

Component(dc, name) == dc[CHOOSE i \in 1..Len(dc) : dc[i].name = name]

\* the value of an attribute of a component, or the exception raised
get_attr_by_name(dc, name, attribute) ==
    IF ~HasComponent(dc, name) THEN [err |-> "Exception", value |-> NaN]
    ELSE IF attribute \notin DOMAIN Component(dc, name).attributes
         THEN [err |-> "Exception", value |-> NaN]
    ELSE [err |-> "none", value |-> Component(dc, name).attributes[attribute].value]

\* variant: a key seen for the first time goes in front
FromKeysFront(keys, k) ==
    IF \E i \in 1..Len(keys) : keys[i] = k THEN keys ELSE <<k>> \o keys

\* dict.fromkeys: a key already present keeps its place, a new key goes last
FromKeys(keys, k) ==
    IF \E i \in 1..Len(keys) : keys[i] = k THEN keys ELSE Append(keys, k)

\* list(dict.fromkeys(...)): the categories in the order in which each is first seen
RECURSIVE Categories(_)
Categories(dc) ==
    IF dc = <<>> THEN <<>>
    ELSE FromKeys(Categories(SubSeq(dc, 1, Len(dc) - 1)), dc[Len(dc)].category)

\* the names of the components of one category, in registration order
RECURSIVE ComponentsOf(_, _)
ComponentsOf(dc, category) ==
    IF dc = <<>> THEN <<>>
    ELSE (IF dc[1].category = category THEN <<dc[1].name>> ELSE <<>>)
         \o ComponentsOf(Tail(dc), category)

\* variant: a name already in the catalog keeps its first definition
AddDesignComponentKeepFirst(dc, component_dict) ==
    IF HasName(dc, component_dict.name) THEN dc ELSE Append(dc, component_dict)

\* design_components[name] = {...}: the entry of an existing name is replaced where
\* it stands, a new name goes last
AddDesignComponent(dc, component_dict) == DictSet(dc, component_dict)

\* [design_components[option]["attributes"][attribute] for option of the category]
\* can be built: every component of the category carries the attribute
AllCarry(dc, category, attribute) ==
    \A i \in 1..Len(dc) :
        dc[i].category = category => attribute \in DOMAIN dc[i].attributes

\* the entries {"value": ..., "units": ...} of the attribute over the category
AttributeEntries(dc, category, attribute) ==
    SelectSeq(AsSeq([i \in 1..Len(dc) |->
                  IF dc[i].category = category /\ attribute \in DOMAIN dc[i].attributes
                  THEN <<dc[i].attributes[attribute]>> ELSE <<>>]),
              LAMBDA e : e # <<>>)

\* sum_attributes_by_category: what it returns and the exception it raises.
\* dict.fromkeys hashes every element of the list it is given, and the elements are
\* the dicts {"value", "units"}: with one element or more it raises TypeError.
sum_attributes_by_category_of(dc, category, attribute) ==
    IF \A i \in 1..Len(dc) : dc[i].category # category
    THEN [err |-> "Exception", value |-> NaN]
    ELSE IF ~AllCarry(dc, category, attribute) THEN [err |-> "KeyError", value |-> NaN]
    ELSE IF AttributeEntries(dc, category, attribute) # <<>>
         THEN [err |-> "TypeError", value |-> NaN]
    ELSE [err |-> "Exception", value |-> NaN]

\* every element of heads put in front of every element of tails, heads varying slowest
RECURSIVE Cross(_, _)
Cross(heads, tails) ==
    IF heads = <<>> THEN <<>>
    ELSE AsSeq([i \in 1..Len(tails) |-> <<heads[1]>> \o tails[i]]) \o Cross(Tail(heads), tails)

\* itertools.product(*lists): the first list varies slowest; no list gives one empty tuple
RECURSIVE Product(_)
Product(lists) ==
    IF lists = <<>> THEN << <<>> >>
    ELSE Cross(lists[1], Product(Tail(lists)))

\* the cells a row has before anything is computed for it: all missing
BlankRow(design) ==
    [design |-> design, mass |-> NaN, price |-> NaN,
     raw |-> [n \in Names |-> NaN], sau |-> [n \in Names |-> NaN],
     mau |-> NaN, pareto |-> "NaN", near_pareto |-> "NaN",
     max_mau |-> NaN, min_mau |-> NaN]

\* pd.DataFrame(): no rows, no columns
EmptyFrame == [columns |-> <<>>, derived |-> {}, sau |-> {}, rows |-> <<>>]

\* the list, per category, of the names of its components
components_by_category(dc, categories) ==
    AsSeq([i \in 1..Len(categories) |-> ComponentsOf(dc, categories[i])])

\* pd.DataFrame(tradespace_data, columns=categories): one row per combination, one
\* column per category; derived is the set of the other columns present, sau the
\* names n with a column sau_n
DataFrame(tradespace_data, categories) ==
    [columns |-> categories, derived |-> {}, sau |-> {},
     rows |-> AsSeq([i \in 1..Len(tradespace_data) |-> BlankRow(tradespace_data[i])])]

GenerateDesignTradespace(dc) ==
    DataFrame(Product(components_by_category(dc, Categories(dc))), Categories(dc))

-----------------------------------------------------------------------------
(* TradespaceDesigner.calculate_sau *)

\* tradespace_df[name].max() > max_value : NaN cells are skipped
AnyAbove(df, item) ==
    \E i \in 1..Len(df.rows) : RGt(df.rows[i].raw[item.name], item.max_value)

\* tradespace_df[name].min() < min_value
AnyBelow(df, item) ==
    \E i \in 1..Len(df.rows) : RLt(df.rows[i].raw[item.name], item.min_value)

\* the linear function, 0/0 when the two bounds coincide
LinearSau(raw, item) ==
    RDiv(RSub(raw, item.min_value), RSub(item.max_value, item.min_value))

\* sau_<name> := value on the rows of mask (a set of row indices, value being indexed
\* by the rows); the column is created when absent
SetSau(df, name, mask, value) ==
    [df EXCEPT !.sau = @ \cup {name},
               !.rows = AsSeq([i \in 1..Len(df.rows) |->
                           IF i \in mask
                           THEN [df.rows[i] EXCEPT !.sau[name] = value[i]]
                           ELSE df.rows[i]])]

\* the rows whose raw value of the attribute exceeds max_value
Above(df, item) ==
    {i \in 1..Len(df.rows) : RGt(df.rows[i].raw[item.name], item.max_value)}

\* the rows whose raw value of the attribute is under min_value
Below(df, item) ==
    {i \in 1..Len(df.rows) : RLt(df.rows[i].raw[item.name], item.min_value)}

\* good_values: the rows whose raw value lies within the bounds
GoodValues(df, item) ==
    {i \in 1..Len(df.rows) : /\ RLe(df.rows[i].raw[item.name], item.max_value)
                             /\ RGe(df.rows[i].raw[item.name], item.min_value)}

\* the branch clip_max: 1.0 where the raw value exceeds max_value
ClipAbove(df, item) ==
    IF AnyAbove(df, item)
    THEN SetSau(df, item.name, Above(df, item), [i \in 1..Len(df.rows) |-> One])
    ELSE df

\* the branch clip_min: 0.0 where the raw value is under min_value
ClipBelow(df, item) ==
    IF AnyBelow(df, item)
    THEN SetSau(df, item.name, Below(df, item), [i \in 1..Len(df.rows) |-> Zero])
    ELSE df

\* the linear function on the rows of good_values
SetLinear(df, item) ==
    SetSau(df, item.name, GoodValues(df, item),
           [i \in 1..Len(df.rows) |-> LinearSau(df.rows[i].raw[item.name], item)])

\* one turn of the loop of calculate_sau: the table it leaves and the exception it raises
SauOfItem(df, item, clip_max, clip_min) ==
    IF item.name \notin df.derived THEN [df |-> df, err |-> "KeyError"]
    ELSE IF AnyAbove(df, item) /\ ~clip_max THEN [df |-> df, err |-> "Exception"]
    ELSE IF AnyBelow(df, item) /\ ~clip_min
         THEN [df |-> ClipAbove(df, item), err |-> "Exception"]
    ELSE [df |-> SetLinear(ClipBelow(ClipAbove(df, item), item), item), err |-> "none"]

\* the loop over the performance items, in registration order, from the outcome r of
\* the turns made so far; it is left at the first exception
RECURSIVE SauLoop(_, _, _, _)
SauLoop(r, items, clip_max, clip_min) ==
    IF items = <<>> \/ r.err # "none" THEN r
    ELSE SauLoop(SauOfItem(r.df, items[1], clip_max, clip_min), Tail(items),
                 clip_max, clip_min)

CalculateSau(df, items, clip_max, clip_min) ==
    SauLoop([df |-> df, err |-> "none"], items, clip_max, clip_min)

-----------------------------------------------------------------------------
(* TradespaceDesigner.calculate_mau *)

\* variant: the restrictive veto is not applied
MauStepNoVeto(mau, sau, weight, restrictive) == RAdd(mau, RMul(weight, sau))

\* one turn of the loop for one row: the veto resets the running MAU, then the term is added
MauStep(mau, sau, weight, restrictive) ==
    RAdd(IF restrictive /\ REq(sau, Zero) THEN Zero ELSE mau, RMul(weight, sau))

RECURSIVE MauLoop(_, _, _)
MauLoop(df, items, restrictive) ==
    IF items = <<>> THEN [df |-> df, err |-> "none"]
    ELSE IF items[1].name \notin df.sau THEN [df |-> df, err |-> "KeyError"]
    ELSE MauLoop([df EXCEPT !.rows = AsSeq([i \in 1..Len(df.rows) |->
                        [df.rows[i] EXCEPT !.mau =
                            MauStep(@, df.rows[i].sau[items[1].name],
                                    items[1].weight, restrictive)]])],
                 Tail(items), restrictive)

\* tradespace_df["mau"] = 0, then the loop over the performance items
CalculateMau(df, items, restrictive) ==
    MauLoop([df EXCEPT !.derived = @ \cup {"mau"},
                       !.rows = AsSeq([i \in 1..Len(df.rows) |->
                                   [df.rows[i] EXCEPT !.mau = Zero]])],
            items, restrictive)

-----------------------------------------------------------------------------
(* TradespaceDesigner.detect_pareto, with x_name = 'price' and y_name = 'mau' *)

\* any((tradespace_df[x_name] <= x) & (tradespace_df[y_name] > y))
Dominated(df, row) ==
    \E j \in 1..Len(df.rows) :
        RLe(df.rows[j].price, row.price) /\ RGt(df.rows[j].mau, row.mau)

\* the flag the table holds for a row after its turn of the loop: a row with y == 0
\* is skipped by "continue" before the table is updated
ParetoOfRow(df, row) ==
    IF REq(row.mau, Zero) THEN row.pareto
    ELSE IF Dominated(df, row) THEN "False"
    ELSE "True"

\* the column pareto exists once some row was written
DetectPareto(df) ==
    IF df.rows = <<>> THEN [df |-> df, err |-> "none"]
    ELSE IF "price" \notin df.derived \/ "mau" \notin df.derived
         THEN [df |-> df, err |-> "KeyError"]
    ELSE [df |-> [df EXCEPT
                    !.derived = IF \E i \in 1..Len(df.rows) : ~REq(df.rows[i].mau, Zero)
                                THEN @ \cup {"pareto"} ELSE @,
                    !.rows = AsSeq([i \in 1..Len(df.rows) |->
                                [df.rows[i] EXCEPT !.pareto = ParetoOfRow(df, df.rows[i])]])],
          err |-> "none"]

-----------------------------------------------------------------------------
(* TradespaceDesigner.generate_performance_tradespace *)

\* calculate_mau, reached when the step before it (outcome s) raised nothing
ThenCalculateMau(s, items, restrictive) ==
    IF s.err # "none" THEN s ELSE CalculateMau(s.df, items, restrictive)

\* detect_pareto, reached when the steps before it (outcome m) raised nothing
ThenDetectPareto(m) == IF m.err # "none" THEN m ELSE DetectPareto(m.df)

GeneratePerformanceTradespace(df, items, clip_max, clip_min, restrictive) ==
    ThenDetectPareto(
        ThenCalculateMau(CalculateSau(df, items, clip_max, clip_min), items, restrictive))

-----------------------------------------------------------------------------
(* UAVTradespacer.generate_tradespace: the loop that evaluates every design *)

\* the cell of a row in the column of a category: the name of the chosen component
Chosen(df, row, category) ==
    row.design[CHOOSE i \in 1..Len(df.columns) : df.columns[i] = category]

UAVCategories ==
    {"frame", "propeller", "motor", "esc", "battery", "onboard_computer"}

\* UAVModel.g, the gravitational acceleration 9.80665
UAVModel_g == Frac(980665, 100000)

\* variant: the esc is counted once, not once per rotor
AggregateOneEsc(dc, df, row, attr) ==
    LET V(category, a) == get_attr_by_name(dc, Chosen(df, row, category), a).value
    IN RAdd(RAdd(RAdd(RAdd(RAdd(V("frame", attr),
                                RMul(V("propeller", attr), V("frame", "number_of_rotors"))),
                           RMul(V("motor", attr), V("frame", "number_of_rotors"))),
                      V("esc", attr)),
                 V("battery", attr)),
            V("onboard_computer", attr))

\* frame + propeller * number_of_rotors + motor * number_of_rotors
\* + esc * number_of_rotors + battery + onboard_computer,
\* over the attribute attr (mass or price) of the components chosen in the row
Aggregate(dc, df, row, attr) ==
    LET V(category, a) == get_attr_by_name(dc, Chosen(df, row, category), a).value
    IN RAdd(RAdd(RAdd(RAdd(RAdd(V("frame", attr),
                                RMul(V("propeller", attr), V("frame", "number_of_rotors"))),
                           RMul(V("motor", attr), V("frame", "number_of_rotors"))),
                      RMul(V("esc", attr), V("frame", "number_of_rotors"))),
                 V("battery", attr)),
            V("onboard_computer", attr))

\* the attribute lookups of one turn of the loop all succeed
LookupsSucceed(dc, df, row) ==
    /\ \A c \in UAVCategories :
          /\ get_attr_by_name(dc, Chosen(df, row, c), "mass").err = "none"
          /\ get_attr_by_name(dc, Chosen(df, row, c), "price").err = "none"
    /\ get_attr_by_name(dc, Chosen(df, row, "frame"), "number_of_rotors").err = "none"

\* one turn of the loop: the derived and the performance columns of one row; setMass
\* stores the weight G = mass * g and the column mass is written as G / g
EvaluatedRow(dc, df, row, uav) ==
    [row EXCEPT !.mass = RDiv(RMul(Aggregate(dc, df, row, "mass"), UAVModel_g),
                             UAVModel_g),
                !.price = Aggregate(dc, df, row, "price"),
                !.raw = uav.raw]

DerivedColumns == {"mass", "price"} \cup Names

\* the loop over the rows from row i on; uavs is uav_list so far.
\* A row whose column lookup fails raises KeyError, a failed attribute lookup or a
\* solver that does not converge (ier != 1) raises Exception: the loop stops there.
RECURSIVE EvaluateRows(_, _, _, _, _)
EvaluateRows(dc, phys, df, uavs, i) ==
    IF i > Len(df.rows) THEN [df |-> df, uav_list |-> uavs, err |-> "none"]
    ELSE IF \E c \in UAVCategories : \A k \in 1..Len(df.columns) : df.columns[k] # c
         THEN [df |-> df, uav_list |-> uavs, err |-> "KeyError"]
    ELSE IF ~LookupsSucceed(dc, df, df.rows[i])
         THEN [df |-> df, uav_list |-> uavs, err |-> "Exception"]
    ELSE IF phys[df.rows[i].design].ier # 1
         THEN [df |-> df, uav_list |-> uavs, err |-> "Exception"]
    ELSE EvaluateRows(dc, phys,
                      [df EXCEPT !.derived = @ \cup DerivedColumns,
                                 !.rows[i] = EvaluatedRow(dc, df, df.rows[i],
                                                          phys[df.rows[i].design])],
                      Append(uavs, phys[df.rows[i].design]), i + 1)

\* Exception(f"Solver: fsolve did not find a solution\n{mesg}"), raised in max-thrust
\* and in max-payload mode alike: mesg is the text fsolve gives for its flag ier
SolverException(ier) == <<"Solver: fsolve did not find a solution", ToString(ier)>>

\* the first row from row i on whose design the solver does not converge for, 0 if none
RECURSIVE FailedRow(_, _, _)
FailedRow(phys, rows, i) ==
    IF i > Len(rows) THEN 0
    ELSE IF phys[rows[i].design].ier # 1 THEN i
    ELSE FailedRow(phys, rows, i + 1)

\* the message of the solver's exception when the loop over the rows, ended as e, was
\* stopped by it: the row after those evaluated is the one that failed
SolverError(dc, phys, e) ==
    IF /\ e.err = "Exception"
       /\ Len(e.uav_list) < Len(e.df.rows)
       /\ LookupsSucceed(dc, e.df, e.df.rows[Len(e.uav_list) + 1])
    THEN SolverException(phys[e.df.rows[Len(e.uav_list) + 1].design].ier)
    ELSE <<>>

-----------------------------------------------------------------------------
(* UAVTradespacer.generate_tradespace: the sensitivity analysis *)

range_percent == Frac(1, 2)

\* np.array([1-range_percent, 1.0, 1+range_percent])
Coefficients == <<RSub(One, range_percent), One, RAdd(One, range_percent)>>

\* variant: the sweep stops one combination short of the last one
CoeffCombinationsShort(k) ==
    LET all == Product(AsSeq([i \in 1..k |-> Coefficients]))
    IN SubSeq(all, 1, Len(all) - 1)

\* itertools.product(coefficients, repeat=k): 3^k rows, the first position varying slowest
CoeffCombinations(k) == Product(AsSeq([i \in 1..k |-> Coefficients]))

RECURSIVE SumSeq(_)
SumSeq(xs) == IF xs = <<>> THEN Zero ELSE RAdd(xs[1], SumSeq(Tail(xs)))

\* every element of xs divided by d
DivideAll(xs, d) == AsSeq([i \in 1..Len(xs) |-> RDiv(xs[i], d)])

\* one row of coeff_combinations multiplied by the weights
Scaled(combination, items) ==
    AsSeq([i \in 1..Len(items) |-> RMul(combination[i], items[i].weight)])

\* the row made to sum to 1: divided by its sum
SumToOne(scaled) == DivideAll(scaled, SumSeq(scaled))

\* one row of coeff_combinations: multiplied by the weights, then divided by its sum
NormalisedWeights(combination, items) == SumToOne(Scaled(combination, items))

\* performance_items[name]['weight'] = ... for every name: the inner dicts are mutated
SetWeights(items, weights) ==
    AsSeq([i \in 1..Len(items) |-> [items[i] EXCEPT !.weight = weights[i]]])

\* variant: the copy holds dicts of its own, with the weights as they were copied
DeepCopy(copied, live) == copied

\* dict.copy() is shallow: the copy made before the sweep holds the same inner dicts
\* as the live dict, so each of its entries reads as the live entry of that name reads now
ShallowCopy(copied, live) ==
    AsSeq([i \in 1..Len(copied) |->
        live[CHOOSE j \in 1..Len(live) : live[j].name = copied[i].name]])

\* variant: a MAU below the running min is compared with the running max only
MinMaxUpdateMaxOnly(min_max_maus, i, mau) ==
    IF i \notin DOMAIN min_max_maus
    THEN min_max_maus @@ (i :> [max |-> mau, min |-> mau])
    ELSE IF RGt(mau, min_max_maus[i].max)
         THEN [min_max_maus EXCEPT ![i].max = mau]
    ELSE min_max_maus

\* the running min and max of the MAU of row i
MinMaxUpdate(min_max_maus, i, mau) ==
    IF i \notin DOMAIN min_max_maus
    THEN min_max_maus @@ (i :> [max |-> mau, min |-> mau])
    ELSE IF RGt(mau, min_max_maus[i].max)
         THEN [min_max_maus EXCEPT ![i].max = mau]
    ELSE IF RLt(mau, min_max_maus[i].min)
         THEN [min_max_maus EXCEPT ![i].min = mau]
    ELSE min_max_maus

RECURSIVE MinMaxRows(_, _, _)
MinMaxRows(min_max_maus, df, i) ==
    IF i > Len(df.rows) THEN min_max_maus
    ELSE MinMaxRows(MinMaxUpdate(min_max_maus, i, df.rows[i].mau), df, i + 1)

\* The sweep from combination i on.  st holds the table, the performance items, the
\* rows seen in a Pareto set (near) and the running bounds (min_max_maus).  The sum
\* assertion and the read of the column pareto can each end the sweep with the state
\* as it is at that point.
RECURSIVE Sweep(_, _, _, _)

\* variant: only the Pareto set of the latest combination is kept
SweepRecordLatest(st, g, combinations, weights_list, i) ==
    IF g.err # "none" THEN [st EXCEPT !.df = g.df, !.err = g.err]
    ELSE IF "pareto" \notin g.df.derived THEN [st EXCEPT !.df = g.df, !.err = "KeyError"]
    ELSE Sweep([st EXCEPT
                  !.df = g.df,
                  !.near = {r \in 1..Len(g.df.rows) : g.df.rows[r].pareto = "True"},
                  !.min_max_maus = MinMaxRows(@, g.df, 1)],
               combinations, weights_list, i + 1)

\* what a turn does once generate_performance_tradespace has returned g
SweepRecord(st, g, combinations, weights_list, i) ==
    IF g.err # "none" THEN [st EXCEPT !.df = g.df, !.err = g.err]
    ELSE IF "pareto" \notin g.df.derived THEN [st EXCEPT !.df = g.df, !.err = "KeyError"]
    ELSE Sweep([st EXCEPT
                  !.df = g.df,
                  !.near = @ \cup {r \in 1..Len(g.df.rows) : g.df.rows[r].pareto = "True"},
                  !.min_max_maus = MinMaxRows(@, g.df, 1)],
               combinations, weights_list, i + 1)

\* one turn, st.items holding the weights of combination i already
SweepTurn(st, combinations, weights_list, i) ==
    IF ~REq(SumWeights(st.items), One) THEN [st EXCEPT !.err = "AssertionError"]
    ELSE SweepRecord(st, GeneratePerformanceTradespace(st.df, st.items, TRUE, TRUE, TRUE),
                     combinations, weights_list, i)

Sweep(st, combinations, weights_list, i) ==
    IF i > Len(combinations) THEN st
    ELSE SweepTurn([st EXCEPT !.items =
                       SetWeights(@, NormalisedWeights(combinations[i], weights_list))],
                   combinations, weights_list, i)

\* variant: the flags are attached by position, the first rows taking the true ones
AnnotateByPosition(df, near, min_max_maus) ==
    [df EXCEPT !.derived = IF df.rows = <<>> THEN @
                           ELSE @ \cup {"near_pareto", "max_mau", "min_mau"},
               !.rows = AsSeq([i \in 1..Len(df.rows) |->
                  [df.rows[i] EXCEPT
                     !.near_pareto = IF i <= Cardinality(near) THEN "True" ELSE "False",
                     !.max_mau = IF i \in DOMAIN min_max_maus
                                 THEN min_max_maus[i].max ELSE NaN,
                     !.min_mau = IF i \in DOMAIN min_max_maus
                                 THEN min_max_maus[i].min ELSE NaN]])]

\* the columns near_pareto, max_mau and min_mau added after the sweep
Annotate(df, near, min_max_maus) ==
    [df EXCEPT !.derived = IF df.rows = <<>> THEN @
                           ELSE @ \cup {"near_pareto", "max_mau", "min_mau"},
               !.rows = AsSeq([i \in 1..Len(df.rows) |->
                  [df.rows[i] EXCEPT
                     !.near_pareto = IF i \in near THEN "True" ELSE "False",
                     !.max_mau = IF i \in DOMAIN min_max_maus
                                 THEN min_max_maus[i].max ELSE NaN,
                     !.min_mau = IF i \in DOMAIN min_max_maus
                                 THEN min_max_maus[i].min ELSE NaN]])]

\* what follows generate_performance_tradespace (outcome g) on the restored table
Annotated(g, original_performance_items, swept) ==
    IF g.err # "none"
    THEN [df |-> g.df, items |-> original_performance_items, err |-> g.err]
    ELSE [df |-> Annotate(g.df, swept.near, swept.min_max_maus),
          items |-> original_performance_items, err |-> "none"]

\* the table and the performance items are put back, and the utilities recomputed
Restored(original_tradespace_df, original_performance_items, swept) ==
    Annotated(GeneratePerformanceTradespace(original_tradespace_df,
                                            original_performance_items, TRUE, TRUE, TRUE),
              original_performance_items, swept)

\* what follows the sweep, which ended as swept
AfterSweep(original_tradespace_df, copied, swept) ==
    IF swept.err # "none"
    THEN [df |-> swept.df, items |-> swept.items, err |-> swept.err]
    ELSE Restored(original_tradespace_df, ShallowCopy(copied, swept.items), swept)

\* the branch "if sensitive_analysis" : the table and the items it leaves
SensitiveAnalysis(df, items) ==
    AfterSweep(df, items,
               Sweep([df |-> df, items |-> items, near |-> {},
                      min_max_maus |-> <<>>, err |-> "none"],
                     CoeffCombinations(Len(items)), items, 1))

\* the utilities of the evaluated table e, with or without the sensitivity analysis
Utilities(e, items, sensitive_analysis) ==
    IF sensitive_analysis THEN SensitiveAnalysis(e.df, items)
    ELSE [items |-> items] @@ GeneratePerformanceTradespace(e.df, items, TRUE, TRUE, TRUE)

\* what follows the loop over the rows, which ended as e
AfterRows(e, items, sensitive_analysis) ==
    IF e.err # "none" THEN [items |-> items] @@ e
    ELSE [uav_list |-> e.uav_list] @@ Utilities(e, items, sensitive_analysis)

\* generate_tradespace(sensitive_analysis): the table, the items, uav_list and the exception
GenerateTradespace(dc, phys, items, sensitive_analysis) ==
    AfterRows(EvaluateRows(dc, phys, GenerateDesignTradespace(dc), <<>>, 1),
              items, sensitive_analysis)

-----------------------------------------------------------------------------
(* The operations as steps of the state machine *)

NoRun == [call |-> [op |-> "none", args |-> <<>>], err |-> "none", df |-> EmptyFrame]

\* prev_run keeps the table of a generate_tradespace that the next call repeats
Remember(op) ==
    IF op = "generate_tradespace" /\ last_call.op = "generate_tradespace"
    THEN [call |-> last_call, err |-> err, df |-> tradespace_df]
    ELSE NoRun

add_performance_variable(name, min_value, max_value, units, weight) ==
    \E r \in {AddPerformanceVariable(performance_items, name, min_value, max_value, units, weight)} :
       /\ performance_items' = r.items
       /\ err' = r.err
       /\ last_call' = [op |-> "add_performance_variable", args |-> <<>>]
       /\ prev_run' = Remember("add_performance_variable")
       /\ returned' = NaN
       /\ solver_error' = <<>>
       /\ UNCHANGED <<design_components, tradespace_df, uav_list, physics>>

calculate_sau(clip_max, clip_min) ==
    \E r \in {CalculateSau(tradespace_df, performance_items, clip_max, clip_min)} :
       /\ tradespace_df' = r.df
       /\ err' = r.err
       /\ last_call' = [op |-> "calculate_sau", args |-> <<clip_max, clip_min>>]
       /\ prev_run' = Remember("calculate_sau")
       /\ returned' = NaN
       /\ solver_error' = <<>>
       /\ UNCHANGED <<performance_items, design_components, uav_list, physics>>

calculate_mau(restrictive) ==
    \E r \in {CalculateMau(tradespace_df, performance_items, restrictive)} :
       /\ tradespace_df' = r.df
       /\ err' = r.err
       /\ last_call' = [op |-> "calculate_mau", args |-> <<restrictive>>]
       /\ prev_run' = Remember("calculate_mau")
       /\ returned' = NaN
       /\ solver_error' = <<>>
       /\ UNCHANGED <<performance_items, design_components, uav_list, physics>>

detect_pareto ==
    \E r \in {DetectPareto(tradespace_df)} :
       /\ tradespace_df' = r.df
       /\ err' = r.err
       /\ last_call' = [op |-> "detect_pareto", args |-> <<>>]
       /\ prev_run' = Remember("detect_pareto")
       /\ returned' = NaN
       /\ solver_error' = <<>>
       /\ UNCHANGED <<performance_items, design_components, uav_list, physics>>

generate_performance_tradespace(clip_max, clip_min, restrictive) ==
    \E r \in {GeneratePerformanceTradespace(tradespace_df, performance_items, clip_max, clip_min, restrictive)} :
       /\ tradespace_df' = r.df
       /\ err' = r.err
       /\ last_call' = [op |-> "generate_performance_tradespace",
                        args |-> <<clip_max, clip_min, restrictive>>]
       /\ prev_run' = Remember("generate_performance_tradespace")
       /\ returned' = NaN
       /\ solver_error' = <<>>
       /\ UNCHANGED <<performance_items, design_components, uav_list, physics>>

generate_tradespace(sensitive_analysis) ==
    \E r \in {GenerateTradespace(design_components, physics, performance_items, sensitive_analysis)} :
       /\ tradespace_df' = r.df
       /\ performance_items' = r.items
       /\ uav_list' = r.uav_list
       /\ err' = r.err
       /\ last_call' = [op |-> "generate_tradespace", args |-> <<sensitive_analysis>>]
       /\ prev_run' = Remember("generate_tradespace")
       /\ returned' = NaN
       /\ solver_error' = SolverError(design_components, physics, r)
       /\ UNCHANGED <<design_components, physics>>

add_design_component(component_dict) ==
    /\ design_components' = AddDesignComponent(design_components, component_dict)
    /\ err' = "none"
    /\ last_call' = [op |-> "add_design_component", args |-> <<component_dict>>]
    /\ prev_run' = Remember("add_design_component")
    /\ returned' = NaN
    /\ solver_error' = <<>>
    /\ UNCHANGED <<performance_items, tradespace_df, uav_list, physics>>

sum_attributes_by_category(category, attribute) ==
    \E r \in {sum_attributes_by_category_of(design_components, category, attribute)} :
       /\ err' = r.err
       /\ returned' = r.value
       /\ solver_error' = <<>>
       /\ last_call' = [op |-> "sum_attributes_by_category",
                        args |-> <<category, attribute>>]
       /\ prev_run' = Remember("sum_attributes_by_category")
       /\ UNCHANGED <<performance_items, design_components, tradespace_df,
                      uav_list, physics>>

generate_design_tradespace ==
    /\ tradespace_df' = GenerateDesignTradespace(design_components)
    /\ err' = "none"
    /\ last_call' = [op |-> "generate_design_tradespace", args |-> <<>>]
    /\ prev_run' = Remember("generate_design_tradespace")
    /\ returned' = NaN
    /\ solver_error' = <<>>
    /\ UNCHANGED <<performance_items, design_components, uav_list, physics>>

-----------------------------------------------------------------------------
(* Initial states *)

\* the catalog has at most MaxBatteries batteries, so the table at most as many rows
MaxBatteries == 2

UnitOf == [n \in Names |-> IF n = "max_speed" THEN "m/s" ELSE "min"]

Entry(n, min_value, max_value, w) ==
    [name |-> n, min_value |-> min_value, max_value |-> max_value,
     units |-> UnitOf[n], weight |-> w]

\* the registries that add_performance_variable accepts when every name is registered
\* once, with bounds among B (pairs <<min, max>>) and weights among W
Registered(B, W) ==
    {<<>>}
    \cup {<<Entry(n, b[1], b[2], w)>> : n \in Names, b \in B, w \in W}
    \cup {<<Entry(p[1], b1[1], b1[2], ws[1]), Entry(p[2], b2[1], b2[2], ws[2])>> :
            p \in {q \in Names \X Names : q[1] # q[2]},
            b1 \in B, b2 \in B,
            ws \in {v \in W \X W : RLe(RAdd(v[1], v[2]), One)}}

ValidBounds == {b \in Values \X Values : RLe(b[1], b[2])}

ValidWeights == {w \in Weights : RGe(w, Zero) /\ RLe(w, One)}

\* an entry of a component's attributes: {"value": ..., "units": ...}
Attribute(value, units) == [value |-> value, units |-> units]

Part(name, category, mass, price) ==
    [name |-> name, category |-> category,
     attributes |-> [mass |-> Attribute(Num(mass), "kg"),
                     price |-> Attribute(Num(price), "USD")]]

Frame(name, nr, mass, price) ==
    [name |-> name, category |-> "frame",
     attributes |-> [number_of_rotors |-> Attribute(Num(nr), "int"),
                     mass |-> Attribute(Num(mass), "kg"),
                     price |-> Attribute(Num(price), "USD")]]

BatteryName(i) == IF i = 1 THEN "battery_1" ELSE IF i = 2 THEN "battery_2" ELSE "battery_3"

\* a catalog with one component of every category but the battery, registered by
\* add_frame, add_propeller, add_motor, add_esc, add_battery (one call per price; its
\* price is registered in EUR, every other price in USD), add_onboard_computer
Catalog(prices) ==
    <<Frame("frame_1", 4, 1, 1), Part("propeller_1", "propeller", 1, 1),
      Part("motor_1", "motor", 2, 1), Part("esc_1", "esc", 1, 1)>>
    \o AsSeq([i \in 1..Len(prices) |->
                 [Part(BatteryName(i), "battery", 1, prices[i])
                     EXCEPT !.attributes.price.units = "EUR"]])
    \o <<Part("computer_1", "onboard_computer", 1, 2)>>

\* what calculate_performance yields for one design: the solver converges (ier = 1)
\* and the performance values are numbers, max_speed possibly NaN, or it does not
\* converge and nothing is computed
Converged(max_speed, max_flight_time) ==
    [ier |-> 1, raw |-> [n \in Names |-> IF n = "max_speed" THEN max_speed
                                          ELSE max_flight_time]]

NotConverged == [ier |-> 5, raw |-> [n \in Names |-> NaN]]

PricesOf(batteries) == AsSeq([i \in 1..Len(batteries) |-> batteries[i].price])

DesignsOf(rows) == {rows[i].design : i \in 1..Len(rows)}

Designs(dc) == DesignsOf(GenerateDesignTradespace(dc).rows)

\* the designs of Catalog(...) differ in the battery only: the battery is their 5th column
PhysicsOf(batteries) ==
    [d \in Designs(Catalog(PricesOf(batteries))) |->
        batteries[CHOOSE i \in 1..Len(batteries) : BatteryName(i) = d[5]].uav]

\* a designer with registered performance items and a catalog, before any generation
InitWith(items, batteries) ==
    /\ performance_items \in items
    /\ \E b \in batteries :
          /\ design_components = Catalog(PricesOf(b))
          /\ physics = PhysicsOf(b)
    /\ tradespace_df = EmptyFrame
    /\ uav_list = <<>>
    /\ last_call = [op |-> "none", args |-> <<>>]
    /\ err = "none"
    /\ prev_run = NoRun
    /\ returned = NaN
    /\ solver_error = <<>>

-----------------------------------------------------------------------------
(* Spec: generation of the tradespace, with and without sensitivity analysis *)

FullRange == {<<Zero, Num(MaxValue)>>}

\* batteries that differ in price and in what the solver yields for their design
GenBatteries ==
    {[price |-> 1, uav |-> Converged(Num(MaxValue), One)],
     [price |-> 2, uav |-> Converged(Zero, Num(MaxValue))],
     [price |-> 2, uav |-> Converged(One, Zero)],
     [price |-> 1, uav |-> Converged(NaN, One)],
     [price |-> 2, uav |-> NotConverged]}

Lineups(batteries) == UNION {[1..n -> batteries] : n \in 1..MaxBatteries}

Init == InitWith(Registered(FullRange, ValidWeights), Lineups(GenBatteries))

Next == \E s \in BOOLEAN : generate_tradespace(s)

Spec == Init /\ [][Next]_vars

-----------------------------------------------------------------------------
(* SpecReg: registration of performance attributes on a new designer *)

InitReg ==
    /\ performance_items = <<>>
    /\ design_components = <<>>
    /\ physics = <<>>
    /\ tradespace_df = EmptyFrame
    /\ uav_list = <<>>
    /\ last_call = [op |-> "none", args |-> <<>>]
    /\ err = "none"
    /\ prev_run = NoRun
    /\ returned = NaN
    /\ solver_error = <<>>

NextReg ==
    \E n \in Names, min_value \in Values, max_value \in Values,
       u \in Units, w \in Weights :
        add_performance_variable(n, min_value, max_value, u, w)

SpecReg == InitReg /\ [][NextReg]_vars

-----------------------------------------------------------------------------
(* SpecCat: the component catalog of a new designer *)

ComponentNames == {"frame_1", "battery_1", "battery_2"}

CategoryNames == {"frame", "battery"}

AttributeNames == {"mass", "price"}

\* attribute dicts: one with mass only, one with mass and price
AttributeDicts ==
    {[mass |-> Attribute(One, "kg")],
     [mass |-> Attribute(Num(MaxValue), "kg"), price |-> Attribute(One, "USD")]}

ComponentDicts ==
    [name : ComponentNames, category : CategoryNames, attributes : AttributeDicts]

NextCat ==
    \/ \E c \in ComponentDicts : add_design_component(c)
    \/ \E c \in CategoryNames \cup {"esc"}, a \in AttributeNames :
          sum_attributes_by_category(c, a)
    \/ generate_design_tradespace

SpecCat == InitReg /\ [][NextCat]_vars

-----------------------------------------------------------------------------
(* SpecSweep: generation of the tradespace with the sensitivity analysis only *)

\* batteries whose designs trade price and the two attributes against each other
SweepBatteries ==
    {[price |-> 1, uav |-> Converged(Num(MaxValue), One)],
     [price |-> 2, uav |-> Converged(Zero, Num(MaxValue))],
     [price |-> 2, uav |-> Converged(One, Zero)]}

InitSweep == InitWith(Registered(FullRange, ValidWeights), Lineups(SweepBatteries))

NextSweep == generate_tradespace(TRUE)

SpecSweep == InitSweep /\ [][NextSweep]_vars

-----------------------------------------------------------------------------
(* SpecUtil: the utility engine and the Pareto detector called on a generated table *)

\* a designer whose generate_tradespace(sensitive_analysis=False) has just ended
InitAfter(items, lineups) ==
    \E i \in items, b \in lineups :
        \E g \in {GenerateTradespace(Catalog(PricesOf(b)), PhysicsOf(b), i, FALSE)} :
           /\ performance_items = g.items
           /\ design_components = Catalog(PricesOf(b))
           /\ physics = PhysicsOf(b)
           /\ tradespace_df = g.df
           /\ uav_list = g.uav_list
           /\ last_call = [op |-> "generate_tradespace", args |-> <<FALSE>>]
           /\ err = g.err
           /\ prev_run = NoRun
           /\ returned = NaN
           /\ solver_error = <<>>

UtilBatteries ==
    {[price |-> 1, uav |-> Converged(Num(MaxValue), One)],
     [price |-> 2, uav |-> Converged(Zero, Num(MaxValue))],
     [price |-> 2, uav |-> Converged(One, Zero)],
     [price |-> 1, uav |-> Converged(Zero, Zero)],
     [price |-> 2, uav |-> Converged(Num(MaxValue), Num(MaxValue))],
     [price |-> 1, uav |-> Converged(NaN, One)]}

InitUtil == InitAfter(Registered(FullRange, ValidWeights), Lineups(UtilBatteries))

NextUtil ==
    \/ \E r \in BOOLEAN : calculate_mau(r)
    \/ detect_pareto
    \/ \E r \in BOOLEAN : generate_performance_tradespace(TRUE, TRUE, r)

SpecUtil == InitUtil /\ [][NextUtil]_vars

-----------------------------------------------------------------------------
(* SpecSau: calculate_sau on a generated table, for every choice of bounds *)

\* registries in which one attribute takes every pair of bounds
SauItems ==
    {<<Entry(n, b[1], b[2], Frac(1, WeightSteps))>> : n \in Names, b \in ValidBounds}
    \cup {<<Entry("max_flight_time", Zero, Num(MaxValue), Frac(1, WeightSteps)),
            Entry("max_speed", b[1], b[2], Frac(1, WeightSteps))>> : b \in ValidBounds}

SauBatteries ==
    {[price |-> 1, uav |-> Converged(s, One)] : s \in Values \cup {NaN}}
    \cup {[price |-> 1, uav |-> Converged(One, t)] : t \in Values}

InitSau == InitAfter(SauItems, Lineups(SauBatteries))

NextSau == \E cx \in BOOLEAN, cn \in BOOLEAN : calculate_sau(cx, cn)

SpecSau == InitSau /\ [][NextSau]_vars

-----------------------------------------------------------------------------
(* The propulsion model (src/uav_model.py) and UAVModel.calculate_performance *)
(* (src/uav.py).  The transcendental parts are not computed: the propeller  *)
(* coefficients thrust_coefficient(Dp, Hp, Bp) and torque_coefficient(Dp,   *)
(* Hp, Bp) are carried by the UAV as the values Ct and Cm, an angle is      *)
(* carried as its cosine, the square root is taken of rational squares only,*)
(* what fsolve returns is an input, and system_efficiency (a multiple of    *)
(* pi that nothing else reads) is left out of the results.                  *)

\* numpy.sqrt on a rational square; NaN for a negative number
sqrt(x) ==
    IF IsNaN(x) \/ x[1] < 0 THEN NaN
    ELSE <<CHOOSE r \in 0..x[1] : r * r = x[1], CHOOSE r \in 0..x[2] : r * r = x[2]>>

\* numpy.arccos, the angle being carried as its cosine: NaN outside [-1, 1]
arccos(x) ==
    [cos |-> IF RLt(x, Num(-1)) \/ RGt(x, One) THEN NaN ELSE x]

\* None, where an angle is expected
NoAngle == [cos |-> NaN]

\* T = pho * Dp^4 * Ct * (N/60)^2
propeller_thrust(uav, N) ==
    RMul(RMul(uav.pho, RMul(RMul(uav.Dp, uav.Dp), RMul(uav.Dp, uav.Dp))),
         RMul(uav.Ct, RMul(RDiv(N, Num(60)), RDiv(N, Num(60)))))

\* M = pho * Dp^5 * Cm * (N/60)^2
propeller_torque(uav, N) ==
    RMul(RMul(uav.pho, RMul(uav.Dp, RMul(RMul(uav.Dp, uav.Dp), RMul(uav.Dp, uav.Dp)))),
         RMul(uav.Cm, RMul(RDiv(N, Num(60)), RDiv(N, Num(60)))))

\* N = 60 * sqrt(T / (pho * Dp^4 * Ct))
propeller_speed(uav, T) ==
    RMul(Num(60),
         sqrt(RDiv(T, RMul(RMul(uav.pho, RMul(RMul(uav.Dp, uav.Dp), RMul(uav.Dp, uav.Dp))),
                           uav.Ct))))

\* Im = (M * Kv0 * Um0) / (9.55 * (Um0 - Im0 * Rm)) + Im0
motor_current(uav, M) ==
    RAdd(RDiv(RMul(M, RMul(uav.Kv0, uav.Um0)),
              RMul(Frac(955, 100), RSub(uav.Um0, RMul(uav.Im0, uav.Rm)))),
         uav.Im0)

\* Um = Rm * ((M * Kv0 * Um0) / (9.55 * (Um0 - Im0 * Rm)) + Im0)
\*      + ((Um0 - Im0 * Rm) / (Kv0 * Um0)) * N
motor_voltage(uav, M, N) ==
    RAdd(RMul(uav.Rm, motor_current(uav, M)),
         RMul(RDiv(RSub(uav.Um0, RMul(uav.Im0, uav.Rm)), RMul(uav.Kv0, uav.Um0)), N))

\* sigma = (Um + Im * Re) / Ub, limited to [0, 1] when limit is set (the default);
\* applied to one number, or to one element of an array
duty_cycle(Re, Um, Im, Ub, limit) ==
    IF ~limit THEN RDiv(RAdd(Um, RMul(Im, Re)), Ub)
    ELSE IF RGt(RDiv(RAdd(Um, RMul(Im, Re)), Ub), One) THEN One
    ELSE IF RLt(RDiv(RAdd(Um, RMul(Im, Re)), Ub), Zero) THEN Zero
    ELSE RDiv(RAdd(Um, RMul(Im, Re)), Ub)

\* Ue = Ub - Ib * Rb
esc_voltage(Ub, Ib, Rb) == RSub(Ub, RMul(Ib, Rb))

\* Ie = duty_cycle * Im
esc_current(duty, Im) == RMul(duty, Im)

\* Ib = num_motors * Ie + Icontrol
battery_current(num_motors, Ie, Icontrol) == RAdd(RMul(num_motors, Ie), Icontrol)

\* T = (60 / 1000) * (Cb - Cmin) / Ib
battery_endurance(Ib, Cb, Cmin) == RDiv(RMul(Frac(60, 1000), RSub(Cb, Cmin)), Ib)

\* what a mode returns: T, N, M, Um, Im, the duty cycle, Ue, Ie, Ib, the endurance,
\* max_payload and max_pitch
ModeResult(T, N, M, Um, Im, sigma, Ue, Ie, Ib, max_payload, max_pitch, uav) ==
    [T |-> T, N |-> N, M |-> M, Um |-> Um, Im |-> Im, sigma |-> sigma,
     Ue |-> Ue, Ie |-> Ie, Ib |-> Ib,
     t_hover |-> battery_endurance(Ib, uav.Cb, uav.Cmin),
     max_payload |-> max_payload, max_pitch |-> max_pitch]

\* calculate_hover_mode: each rotor carries G / nr; the ESC voltage is computed from
\* the ESC current, before the battery current is
CalculateHoverMode(uav) ==
    LET T == RDiv(uav.G, uav.nr)
        N == propeller_speed(uav, T)
        M == propeller_torque(uav, N)
        Um == motor_voltage(uav, M, N)
        Im == motor_current(uav, M)
        sigma == duty_cycle(uav.Re, Um, Im, uav.Ub, TRUE)
        Ie == esc_current(sigma, Im)
        Ue == esc_voltage(uav.Ub, Ie, uav.Rb)
        Ib == battery_current(uav.nr, Ie, uav.Icontrol)
    IN  ModeResult(T, N, M, Um, Im, sigma, Ue, Ie, Ib, NaN, NoAngle, uav)

\* what fsolve may return for a UAV: the root (Um, Im, M, N) and the flag ier, which is 1
\* when it converged.  A root is given by its speed N, with M, Um and Im as the
\* equations relate them to N; the duty-cycle equation, which fsolve meets within its
\* tolerance only, is not imposed.
RootAt(uav, N, ier) ==
    [Um |-> motor_voltage(uav, propeller_torque(uav, N), N),
     Im |-> motor_current(uav, propeller_torque(uav, N)),
     M |-> propeller_torque(uav, N), N |-> N, ier |-> ier]

\* calculate_max_thrust_mode on what fsolve returned, once ier = 1 is established
CalculateMaxThrustMode(uav, root) ==
    LET max_duty == One
        T == propeller_thrust(uav, root.N)
        Ie == esc_current(max_duty, root.Im)
        Ib == battery_current(uav.nr, Ie, uav.Icontrol)
        Ue == esc_voltage(uav.Ub, Ib, uav.Rb)
    IN  ModeResult(T, root.N, root.M, root.Um, root.Im, max_duty, Ue, Ie, Ib,
                   NaN, NoAngle, uav)

\* calculate_max_payload_mode on what fsolve returned, once ier = 1 is established:
\* max_payload = ((T * nr) - G) / 9.80665, a negative one replaced by 0;
\* cos_pitch = G / (T * nr), replaced by 1 when above 1 and when below -1;
\* the ESC voltage is computed from the ESC current, before the battery current is
CalculateMaxPayloadMode(uav, root) ==
    LET target_duty == uav.safe_duty_cycle
        T == propeller_thrust(uav, root.N)
        max_payload == RDiv(RSub(RMul(T, uav.nr), uav.G), Frac(980665, 100000))
        cos_pitch == RDiv(uav.G, RMul(T, uav.nr))
        Ie == esc_current(target_duty, root.Im)
        Ue == esc_voltage(uav.Ub, Ie, uav.Rb)
        Ib == battery_current(uav.nr, Ie, uav.Icontrol)
    IN  ModeResult(T, root.N, root.M, root.Um, root.Im, target_duty, Ue, Ie, Ib,
                   IF RLt(max_payload, Zero) THEN Zero ELSE max_payload,
                   arccos(IF RGt(cos_pitch, One) \/ RLt(cos_pitch, Num(-1))
                          THEN One ELSE cos_pitch),
                   uav)

\* N = 60 * sqrt(G / (pho * Dp^4 * Ct * nr * cos(pitch)))
propeller_speed_by_pitch(pitch, uav) ==
    RMul(Num(60),
         sqrt(RDiv(uav.G,
                   RMul(RMul(uav.pho, RMul(RMul(uav.Dp, uav.Dp), RMul(uav.Dp, uav.Dp))),
                        RMul(uav.Ct, RMul(uav.nr, pitch.cos))))))

\* M = (G * Cm * Dp) / (Ct * nr * cos(pitch))
propeller_torque_by_pitch(pitch, uav) ==
    RDiv(RMul(uav.G, RMul(uav.Cm, uav.Dp)), RMul(uav.Ct, RMul(uav.nr, pitch.cos)))

\* numpy.linspace(0, max_pitch, 1000), of which the two ends are kept
linspace(max_pitch) == <<arccos(One), max_pitch>>

\* one element of t_arr: the endurance at a sampled pitch, through motor_voltage,
\* motor_current, duty_cycle (limit left at its default), esc_current and battery_current
EnduranceAt(pitch, uav) ==
    LET rpm == propeller_speed_by_pitch(pitch, uav)
        torque == propeller_torque_by_pitch(pitch, uav)
        Um == motor_voltage(uav, torque, rpm)
        Im == motor_current(uav, torque)
        sigma == duty_cycle(uav.Re, Um, Im, uav.Ub, TRUE)
        Ie == esc_current(sigma, Im)
        Ib == battery_current(uav.nr, Ie, uav.Icontrol)
    IN  battery_endurance(Ib, uav.Cb, uav.Cmin)

\* numpy.max of an array: NaN as soon as one element is
RECURSIVE NpMax(_)
NpMax(arr) ==
    IF Len(arr) = 1 THEN arr[1]
    ELSE IF IsNaN(arr[1]) \/ IsNaN(NpMax(Tail(arr))) THEN NaN
    ELSE IF RGt(arr[1], NpMax(Tail(arr))) THEN arr[1]
    ELSE NpMax(Tail(arr))

\* calculate_vel_and_distance without the test max_pitch <= 0
CalculateVelAndDistanceAtZero(max_pitch, uav, speed_arr) ==
    IF IsNaN(max_pitch.cos)
    THEN [max_distance |-> NaN, max_velocity |-> NaN]
    ELSE [max_distance |->
              NpMax([k \in 1..Len(speed_arr) |->
                        RMul(RMul(Num(60), speed_arr[k]),
                             EnduranceAt(linspace(max_pitch)[k], uav))]),
          max_velocity |-> NpMax(speed_arr)]

\* calculate_vel_and_distance; speed_arr is what speed_by_pitch yields on the sampled
\* pitches.  A max_pitch that is None, NaN or not above 0 (its cosine is 1) yields NaN
\* twice and raises nothing
CalculateVelAndDistance(max_pitch, uav, speed_arr) ==
    IF IsNaN(max_pitch.cos) \/ max_pitch.cos = One
    THEN [max_distance |-> NaN, max_velocity |-> NaN]
    ELSE [max_distance |->
              NpMax([k \in 1..Len(speed_arr) |->
                        RMul(RMul(Num(60), speed_arr[k]),
                             EnduranceAt(linspace(max_pitch)[k], uav))]),
          max_velocity |-> NpMax(speed_arr)]

\* a mode that has not been computed: every field None
NoMode == [T |-> NaN, N |-> NaN, M |-> NaN, Um |-> NaN, Im |-> NaN, sigma |-> NaN,
           Ue |-> NaN, Ie |-> NaN, Ib |-> NaN, t_hover |-> NaN,
           max_payload |-> NaN, max_pitch |-> NoAngle]

\* UAVModel() after setAll: the parameters, and every result None
UAVModel(parameters) ==
    parameters @@ [hover |-> NoMode, max |-> NoMode, payload |-> NoMode,
                   max_payload |-> NaN, max_pitch |-> NoAngle,
                   max_distance |-> NaN, max_speed |-> NaN]

\* UAVModel.calculate_performance: hover, max thrust, max payload, then range and speed,
\* each result stored as it comes; a solver that did not converge (ier other than 1)
\* raises, and what was stored before stays
CalculatePerformance(uav, max_root, payload_root, speed_arr) ==
    IF max_root.ier # 1
    THEN [uav |-> [uav EXCEPT !.hover = CalculateHoverMode(uav)],
          err |-> "Exception", ier |-> max_root.ier]
    ELSE IF payload_root.ier # 1
    THEN [uav |-> [uav EXCEPT !.hover = CalculateHoverMode(uav),
                              !.max = CalculateMaxThrustMode(uav, max_root)],
          err |-> "Exception", ier |-> payload_root.ier]
    ELSE LET payload == CalculateMaxPayloadMode(uav, payload_root)
             result == CalculateVelAndDistance(payload.max_pitch, uav, speed_arr)
         IN  [uav |-> [uav EXCEPT !.hover = CalculateHoverMode(uav),
                                  !.max = CalculateMaxThrustMode(uav, max_root),
                                  !.payload = payload,
                                  !.max_payload = payload.max_payload,
                                  !.max_pitch = payload.max_pitch,
                                  !.max_distance = result.max_distance,
                                  !.max_speed = result.max_velocity],
              err |-> "none", ier |-> 1]

\* the performance cells that generate_tradespace writes into the row of a design
\* from its UAV
PerformanceCells(uav) ==
    [max_flight_distance |-> uav.max_distance,
     max_speed |-> uav.max_speed,
     max_payload |-> RDiv(uav.max_payload, Frac(981, 100)),
     max_flight_time |-> uav.hover.t_hover]

\* calculate_hover_mode on the parameters of the UAV
calculate_hover_mode ==
    /\ returned' = CalculateHoverMode(uav_list[1])
    /\ err' = "none"
    /\ solver_error' = <<>>
    /\ last_call' = [op |-> "calculate_hover_mode", args |-> <<>>]
    /\ UNCHANGED <<performance_items, design_components, tradespace_df, uav_list,
                   physics, prev_run>>

\* calculate_max_thrust_mode on the parameters of the UAV, fsolve returning root
calculate_max_thrust_mode(root) ==
    /\ returned' = IF root.ier # 1 THEN NaN ELSE CalculateMaxThrustMode(uav_list[1], root)
    /\ err' = IF root.ier # 1 THEN "Exception" ELSE "none"
    /\ solver_error' = IF root.ier # 1 THEN SolverException(root.ier) ELSE <<>>
    /\ last_call' = [op |-> "calculate_max_thrust_mode", args |-> <<root>>]
    /\ UNCHANGED <<performance_items, design_components, tradespace_df, uav_list,
                   physics, prev_run>>

\* calculate_max_payload_mode on the parameters of the UAV, fsolve returning root
calculate_max_payload_mode(root) ==
    /\ returned' = IF root.ier # 1 THEN NaN ELSE CalculateMaxPayloadMode(uav_list[1], root)
    /\ err' = IF root.ier # 1 THEN "Exception" ELSE "none"
    /\ solver_error' = IF root.ier # 1 THEN SolverException(root.ier) ELSE <<>>
    /\ last_call' = [op |-> "calculate_max_payload_mode", args |-> <<root>>]
    /\ UNCHANGED <<performance_items, design_components, tradespace_df, uav_list,
                   physics, prev_run>>

\* calculate_vel_and_distance on the parameters of the UAV
calculate_vel_and_distance(max_pitch, speed_arr) ==
    /\ returned' = CalculateVelAndDistance(max_pitch, uav_list[1], speed_arr)
    /\ err' = "none"
    /\ solver_error' = <<>>
    /\ last_call' = [op |-> "calculate_vel_and_distance", args |-> <<max_pitch, speed_arr>>]
    /\ UNCHANGED <<performance_items, design_components, tradespace_df, uav_list,
                   physics, prev_run>>

\* the evaluation of a design in generate_tradespace: uav.calculate_performance(), then
\* the performance cells of its row; an exception of the solver leaves the cells as
\* they are
calculate_performance(max_root, payload_root, speed_arr) ==
    \E r \in {CalculatePerformance(uav_list[1], max_root, payload_root, speed_arr)} :
       /\ uav_list' = <<r.uav>>
       /\ tradespace_df' = IF r.err = "none" THEN PerformanceCells(r.uav)
                                             ELSE tradespace_df
       /\ err' = r.err
       /\ solver_error' = IF r.err = "none" THEN <<>> ELSE SolverException(r.ier)
       /\ returned' = NaN
       /\ last_call' = [op |-> "calculate_performance",
                        args |-> <<max_root, payload_root, speed_arr>>]
       /\ UNCHANGED <<performance_items, design_components, physics, prev_run>>

\* The UAVs of the propulsion checks: one propeller (Dp, Ct, Cm) and one motor, the
\* weight G (a negative mass is accepted by every setter), one or four rotors, and a
\* battery of 6 V or of 12 V
ModeParameters ==
    {[pho |-> One, G |-> G, Dp |-> Frac(1, 2), Ct |-> One, Cm |-> Frac(1, 11),
      Kv0 |-> Num(191), Um0 |-> Num(11), Im0 |-> One, Rm |-> One,
      nr |-> nr, Re |-> Frac(1, 10), Ub |-> Ub, Cb |-> Num(1000), Cmin |-> Num(200),
      Rb |-> Frac(1, 100), Icontrol |-> One, safe_duty_cycle |-> Frac(7, 10)] :
        G \in {Num(-16), Num(4), Num(16)}, nr \in {One, Num(4)},
        Ub \in {Num(6), Num(12)}}

\* what fsolve returns: a speed of 240 or of 480 rpm that it converged to (ier = 1), or
\* the point it stopped at without converging (ier = 5)
Roots(uav) ==
    {RootAt(uav, N, 1) : N \in {Num(240), Num(480)}} \cup {RootAt(uav, Num(240), 5)}

\* what speed_by_pitch yields at pitch 0 and at max_pitch
SpeedArrays == {<<Zero, Num(v)>> : v \in 1..2}

\* the values of max_pitch that calculate_vel_and_distance is tried on: None, and what
\* max-payload mode returns
MaxPitches(uav) ==
    {NoAngle} \cup {CalculateMaxPayloadMode(uav, root).max_pitch : root \in Roots(uav)}

InitModes ==
    /\ performance_items = <<>>
    /\ design_components = <<>>
    /\ tradespace_df = [max_flight_distance |-> NaN, max_speed |-> NaN,
                        max_payload |-> NaN, max_flight_time |-> NaN]
    /\ uav_list \in {<<UAVModel(p)>> : p \in ModeParameters}
    /\ physics = <<>>
    /\ last_call = [op |-> "none", args |-> <<>>]
    /\ err = "none"
    /\ prev_run = NoRun
    /\ returned = NaN
    /\ solver_error = <<>>

NextModes ==
    \/ calculate_hover_mode
    \/ \E root \in Roots(uav_list[1]) : calculate_max_thrust_mode(root)
    \/ \E root \in Roots(uav_list[1]) : calculate_max_payload_mode(root)
    \/ \E max_pitch \in MaxPitches(uav_list[1]), speed_arr \in SpeedArrays :
          calculate_vel_and_distance(max_pitch, speed_arr)
    \/ \E max_root \in Roots(uav_list[1]), payload_root \in Roots(uav_list[1]),
          speed_arr \in SpeedArrays :
          calculate_performance(max_root, payload_root, speed_arr)

SpecModes == InitModes /\ [][NextModes]_vars

-----------------------------------------------------------------------------
(* Properties of add_performance_variable *)

\* C1: after any sequence of add_performance_variable calls, accepted or rejected,
\* re-registrations included, the weights of the registered attributes sum to at most 1
WeightSumAtMostOne == RLe(SumWeights(performance_items), One)

\* a rejected call on a registry of two attributes whose weights already sum to 1
WeightSumAtMostOneWitness ==
    /\ last_call.op = "add_performance_variable"
    /\ err = "Exception"
    /\ Len(performance_items) = 2
    /\ SumWeights(performance_items) = One

\* C2: a rejected add_performance_variable raises and leaves the registered attributes,
\* with their bounds, units and weights, exactly as they were before the call
RejectedCallKeepsItems ==
    [][(last_call'.op = "add_performance_variable" /\ err' = "Exception")
          => performance_items' = performance_items]_vars

\* a call rejected on a registry that holds attributes
RejectedCallKeepsItemsWitness ==
    /\ last_call.op = "add_performance_variable"
    /\ err = "Exception"
    /\ Len(performance_items) = 2
    /\ RLt(SumWeights(performance_items), One)

\* C3: every registered attribute has max_value > min_value strictly, so that the
\* denominator max_value - min_value of its SAU is not zero
BoundsStrictlyOrdered ==
    \A i \in 1..Len(performance_items) :
        RGt(performance_items[i].max_value, performance_items[i].min_value)

-----------------------------------------------------------------------------
(* Properties of generate_tradespace *)

SameWeights(a, b) ==
    /\ Len(a) = Len(b)
    /\ \A i \in 1..Len(a) : a[i].name = b[i].name /\ a[i].weight = b[i].weight

\* C4: when generate_tradespace runs with sensitivity analysis and returns, every
\* registered attribute has the weight it had before the call
SweepRestoresWeights ==
    [][(/\ last_call' = [op |-> "generate_tradespace", args |-> <<TRUE>>]
        /\ err' = "none")
          => SameWeights(performance_items', performance_items)]_vars

\* C5: generate_tradespace run twice in a row, with the same argument, on the same
\* catalog and the same registered attributes ends the same way and leaves the same
\* table both times: the same rows with the same SAU, mau and pareto values
RepeatedRunSameTable ==
    (/\ last_call.op = "generate_tradespace"
     /\ prev_run.call = last_call)
        => (err = prev_run.err /\ tradespace_df = prev_run.df)

\* two complete runs with sensitivity analysis over two designs, one of them Pareto,
\* with two registered attributes
RepeatedRunSameTableWitness ==
    /\ last_call = [op |-> "generate_tradespace", args |-> <<TRUE>>]
    /\ prev_run.call = last_call
    /\ err = "none"
    /\ prev_run.err = "none"
    /\ Len(performance_items) = 2
    /\ Len(tradespace_df.rows) = 2
    /\ \E i \in 1..2 : tradespace_df.rows[i].pareto = "True"
    /\ \E i \in 1..2 : RLt(tradespace_df.rows[i].min_mau, tradespace_df.rows[i].max_mau)

-----------------------------------------------------------------------------
(* Properties of detect_pareto *)

\* detect_pareto has just returned, called directly or as the last step of a pipeline
AfterDetectPareto ==
    /\ err = "none"
    /\ last_call.op \in {"detect_pareto", "generate_performance_tradespace",
                         "generate_tradespace"}

Row(i) == tradespace_df.rows[i]

RowIds == 1..Len(tradespace_df.rows)

\* q dominates p: it costs no more and has strictly greater utility
Dominates(q, p) == RLe(q.price, p.price) /\ RGt(q.mau, p.mau)

\* C6: after any call to detect_pareto, for all design points p and q, if q costs at
\* most what p costs and q has strictly greater utility then the pareto flag of p is false
DominatedNotPareto ==
    AfterDetectPareto =>
        \A p \in RowIds, q \in RowIds :
            Dominates(Row(q), Row(p)) => Row(p).pareto = "False"

\* C7: after any call to detect_pareto, every design point whose utility is exactly 0
\* has the pareto flag false: not missing, not left over from an earlier run
ZeroUtilityNotPareto ==
    AfterDetectPareto =>
        \A p \in RowIds : REq(Row(p).mau, Zero) => Row(p).pareto = "False"

\* C8: after detect_pareto the design points flagged Pareto are exactly those with
\* non-zero utility that no other point dominates
ParetoExactlyUndominated ==
    AfterDetectPareto =>
        \A p \in RowIds :
            Row(p).pareto = "True"
                <=> (/\ ~REq(Row(p).mau, Zero)
                     /\ ~\E q \in RowIds \ {p} : Dominates(Row(q), Row(p)))

-----------------------------------------------------------------------------
(* Properties of calculate_mau *)

\* the last call computed the column mau, in restrictive mode or not
MauComputed(restrictive) ==
    /\ err = "none"
    /\ \/ last_call = [op |-> "calculate_mau", args |-> <<restrictive>>]
       \/ /\ last_call.op = "generate_performance_tradespace"
          /\ last_call.args[3] = restrictive
       \/ last_call.op = "generate_tradespace" /\ restrictive

\* the sum of weight * SAU over the attributes registered at positions from..Len
RECURSIVE WeightedSum(_, _)
WeightedSum(row, from) ==
    IF from > Len(performance_items) THEN Zero
    ELSE RAdd(RMul(performance_items[from].weight,
                   row.sau[performance_items[from].name]),
              WeightedSum(row, from + 1))

\* the position of the last attribute whose SAU is exactly 0 in the row, or 1 if none is
LastZero(row) ==
    LET zeros == {i \in 1..Len(performance_items) :
                     REq(row.sau[performance_items[i].name], Zero)}
    IN IF zeros = {} THEN 1 ELSE CHOOSE i \in zeros : \A j \in zeros : j <= i

\* C9: in restrictive mode the MAU of a row is the weighted sum of the SAUs of the
\* attributes from the last one whose SAU is exactly 0 onward, in registration order;
\* in non-restrictive mode it is the weighted sum over all attributes
MauFromLastZero ==
    /\ MauComputed(TRUE) =>
          \A p \in RowIds : Row(p).mau = WeightedSum(Row(p), LastZero(Row(p)))
    /\ MauComputed(FALSE) =>
          \A p \in RowIds : Row(p).mau = WeightedSum(Row(p), 1)

\* restrictive calculate_mau on a row whose first attribute has SAU 0 and whose second
\* attribute, processed after it, makes the MAU positive
MauFromLastZeroWitness ==
    /\ last_call = [op |-> "calculate_mau", args |-> <<TRUE>>]
    /\ err = "none"
    /\ Len(performance_items) = 2
    /\ \E p \in RowIds :
          /\ REq(Row(p).sau[performance_items[1].name], Zero)
          /\ RGt(Row(p).sau[performance_items[2].name], Zero)
          /\ RGt(Row(p).mau, Zero)
    /\ \E p \in RowIds :
          /\ RGt(Row(p).sau[performance_items[1].name], Zero)
          /\ RGt(performance_items[1].weight, Zero)
          /\ REq(Row(p).sau[performance_items[2].name], Zero)
          /\ REq(Row(p).mau, Zero)

-----------------------------------------------------------------------------
(* Properties of calculate_sau *)

\* C10: for every registered attribute calculate_sau gives SAU exactly 0 to a raw value
\* equal to min_value and exactly 1 to a raw value equal to max_value, and of two rows
\* the one with the larger raw value never gets the smaller SAU
SauEndpointsAndMonotone ==
    (last_call.op = "calculate_sau" /\ err = "none") =>
        \A i \in 1..Len(performance_items) :
            LET item == performance_items[i]
                Raw(p) == Row(p).raw[item.name]
                Sau(p) == Row(p).sau[item.name]
            IN \A p \in RowIds :
                  /\ REq(Raw(p), item.min_value) => REq(Sau(p), Zero)
                  /\ REq(Raw(p), item.max_value) => REq(Sau(p), One)
                  /\ \A q \in RowIds : RGt(Raw(p), Raw(q)) => ~RLt(Sau(p), Sau(q))

\* calculate_sau has just run with these two flags
SauCalled(clip_max, clip_min) ==
    last_call = [op |-> "calculate_sau", args |-> <<clip_max, clip_min>>]

\* C11: when some raw value of an attribute exceeds max_value, calculate_sau with
\* clip_max sets the SAU of those rows to 1 and without clip_max raises; clip_min does
\* the same at min_value with SAU 0; with both clips every row with a defined raw value
\* gets an SAU in [0,1]
ClipPolicies ==
    \A clip_max \in BOOLEAN, clip_min \in BOOLEAN :
        SauCalled(clip_max, clip_min) =>
            /\ (\E i \in 1..Len(performance_items) :
                   \/ AnyAbove(tradespace_df, performance_items[i]) /\ ~clip_max
                   \/ AnyBelow(tradespace_df, performance_items[i]) /\ ~clip_min)
                 => err = "Exception"
            /\ err = "none" =>
                 \A i \in 1..Len(performance_items), p \in RowIds :
                    /\ p \in Above(tradespace_df, performance_items[i])
                         => Row(p).sau[performance_items[i].name] = One
                    /\ p \in Below(tradespace_df, performance_items[i])
                         => Row(p).sau[performance_items[i].name] = Zero
            /\ (clip_max /\ clip_min) =>
                 /\ err = "none"
                 /\ \A i \in 1..Len(performance_items), p \in RowIds :
                       ~IsNaN(Row(p).raw[performance_items[i].name])
                          => /\ RGe(Row(p).sau[performance_items[i].name], Zero)
                             /\ RLe(Row(p).sau[performance_items[i].name], One)

-----------------------------------------------------------------------------
(* Properties of the component catalog *)

\* the names registered in a catalog
NamesOf(dc) == {dc[i].name : i \in 1..Len(dc)}

\* C12: component names are unique keys: after add_design_component the catalog holds
\* one entry per distinct name, the entry of the registered name carries the category
\* and the attributes of this registration and nothing of an earlier one, and the
\* entries of the other names are as they were
LastRegistrationWins ==
    [][last_call'.op = "add_design_component" =>
          /\ \A i \in 1..Len(design_components'), j \in 1..Len(design_components') :
                design_components'[i].name = design_components'[j].name => i = j
          /\ NamesOf(design_components')
                = NamesOf(design_components) \cup {last_call'.args[1].name}
          /\ err' = "none"
          /\ \A i \in 1..Len(design_components') :
                IF design_components'[i].name = last_call'.args[1].name
                THEN design_components'[i] = last_call'.args[1]
                ELSE \E j \in 1..Len(design_components) :
                        design_components[j] = design_components'[i]]_vars

\* the last call registered again the name that was registered first, among three
LastRegistrationWinsWitness ==
    /\ last_call.op = "add_design_component"
    /\ Len(design_components) = 3
    /\ design_components[1] = last_call.args[1]
    /\ design_components[1].category = "battery"
    /\ design_components[1].name = "frame_1"

\* sum([get_attr_by_name(option, attribute) for option of the category]): the sum the
\* last statement of sum_attributes_by_category is written to return
RECURSIVE SumOfCategory(_, _, _)
SumOfCategory(dc, category, attribute) ==
    IF dc = <<>> THEN Zero
    ELSE IF dc[1].category = category
         THEN RAdd(dc[1].attributes[attribute].value,
                   SumOfCategory(Tail(dc), category, attribute))
         ELSE SumOfCategory(Tail(dc), category, attribute)

\* C15: sum_attributes_by_category, given a category that has registered components and
\* an attribute each of them carries, returns the sum of the attribute's values over the
\* components of the category; an unknown category or attribute is a lookup error
SumByCategoryReturnsSum ==
    last_call.op = "sum_attributes_by_category" =>
        IF /\ \E i \in 1..Len(design_components) :
                 design_components[i].category = last_call.args[1]
           /\ AllCarry(design_components, last_call.args[1], last_call.args[2])
        THEN /\ err = "none"
             /\ returned = SumOfCategory(design_components, last_call.args[1],
                                         last_call.args[2])
        ELSE err \in {"Exception", "KeyError"}

\* the position at which a category is first seen among the registered components
FirstSeen(dc, category) ==
    CHOOSE i \in 1..Len(dc) :
        /\ dc[i].category = category
        /\ \A j \in 1..(i - 1) : dc[j].category # category

\* the number of components of each of the categories, multiplied
RECURSIVE ProductOfCounts(_, _)
ProductOfCounts(dc, categories) ==
    IF categories = <<>> THEN 1
    ELSE Len(ComponentsOf(dc, categories[1])) * ProductOfCounts(dc, Tail(categories))

\* the combinations: one component of its category for each column
Combinations(dc, columns) ==
    {f \in [1..Len(columns) -> NamesOf(dc)] :
        \A i \in 1..Len(columns) : Component(dc, f[i]).category = columns[i]}

\* C13: generate_design_tradespace produces the full Cartesian product of the catalog:
\* the columns are the categories in the order in which each was first seen, the number
\* of rows is the product of the numbers of components per category, every row selects
\* one component of each category, and every combination is in exactly one row
FullCartesianProduct ==
    last_call.op = "generate_design_tradespace" =>
        /\ {tradespace_df.columns[i] : i \in 1..Len(tradespace_df.columns)}
              = {design_components[i].category : i \in 1..Len(design_components)}
        /\ \A i \in 1..Len(tradespace_df.columns), j \in 1..Len(tradespace_df.columns) :
              i < j => FirstSeen(design_components, tradespace_df.columns[i])
                          < FirstSeen(design_components, tradespace_df.columns[j])
        /\ Len(tradespace_df.rows)
              = ProductOfCounts(design_components, tradespace_df.columns)
        /\ \A i \in 1..Len(tradespace_df.rows) :
              AsSeq(tradespace_df.rows[i].design)
                 \in Combinations(design_components, tradespace_df.columns)
        /\ \A f \in Combinations(design_components, tradespace_df.columns) :
              Cardinality({i \in 1..Len(tradespace_df.rows) :
                              tradespace_df.rows[i].design = f}) = 1

\* three components in two categories, the category seen first not first in the alphabet
FullCartesianProductWitness ==
    /\ last_call.op = "generate_design_tradespace"
    /\ tradespace_df.columns = <<"frame", "battery">>
    /\ Len(design_components) = 3
    /\ Len(tradespace_df.rows) = 2
    /\ design_components[1].category = "frame"

-----------------------------------------------------------------------------
(* Properties of the generated table *)

\* the value of an attribute of the component a row selects in a category
Selected(row, category, attribute) ==
    Component(design_components,
              row.design[CHOOSE i \in 1..Len(tradespace_df.columns) :
                            tradespace_df.columns[i] = category]).attributes[attribute].value

\* frame + (propeller + motor + esc) x rotor count + battery + onboard computer
Total(row, attribute) ==
    RAdd(RAdd(RAdd(Selected(row, "frame", attribute),
                   RMul(RAdd(RAdd(Selected(row, "propeller", attribute),
                                  Selected(row, "motor", attribute)),
                             Selected(row, "esc", attribute)),
                        Selected(row, "frame", "number_of_rotors"))),
              Selected(row, "battery", attribute)),
         Selected(row, "onboard_computer", attribute))

\* C14: in every row of the generated tradespace, mass is frame mass + (propeller mass
\* + motor mass + esc mass) x the frame's rotor count + battery mass + onboard-computer
\* mass of the components the row selects, and price is the same expression over prices
MassAndPriceAggregated ==
    last_call.op = "generate_tradespace" =>
        /\ err = "none" =>
              \A i \in 1..Len(tradespace_df.rows) : ~IsNaN(tradespace_df.rows[i].mass)
        /\ \A i \in 1..Len(tradespace_df.rows) :
              ~IsNaN(tradespace_df.rows[i].mass) =>
                 /\ tradespace_df.rows[i].mass = Total(tradespace_df.rows[i], "mass")
                 /\ tradespace_df.rows[i].price = Total(tradespace_df.rows[i], "price")

\* a generated table of two rows whose prices differ
MassAndPriceAggregatedWitness ==
    /\ last_call.op = "generate_tradespace"
    /\ err = "none"
    /\ Len(tradespace_df.rows) = 2
    /\ tradespace_df.rows[1].mass = Num(19)
    /\ tradespace_df.rows[1].price = Num(16)
    /\ tradespace_df.rows[2].price = Num(17)

-----------------------------------------------------------------------------
(* Properties of the sensitivity analysis *)

\* the coefficient rows of the sweep: one of 1 - r, 1, 1 + r for each attribute
Perturbations(items) ==
    [1..Len(items) -> {RSub(One, range_percent), One, RAdd(One, range_percent)}]

\* the weighted total of the coefficients c over the weights of items
RECURSIVE PerturbedTotal(_, _, _)
PerturbedTotal(items, c, from) ==
    IF from > Len(items) THEN Zero
    ELSE RAdd(RMul(c[from], items[from].weight), PerturbedTotal(items, c, from + 1))

\* the weight of attribute i under the coefficients c: scaled, then renormalised
PerturbedWeight(items, c, i) ==
    RDiv(RMul(c[i], items[i].weight), PerturbedTotal(items, c, 1))

\* the sum of perturbed weight * SAU over the attributes at positions from..Len(items)
RECURSIVE PerturbedSum(_, _, _, _)
PerturbedSum(row, items, c, from) ==
    IF from > Len(items) THEN Zero
    ELSE RAdd(RMul(PerturbedWeight(items, c, from), row.sau[items[from].name]),
              PerturbedSum(row, items, c, from + 1))

\* the position of the last attribute of items whose SAU is exactly 0 in the row, or 1
LastZeroOf(row, items) ==
    IF \E i \in 1..Len(items) : REq(row.sau[items[i].name], Zero)
    THEN CHOOSE i \in 1..Len(items) :
            /\ REq(row.sau[items[i].name], Zero)
            /\ \A j \in (i + 1)..Len(items) : ~REq(row.sau[items[j].name], Zero)
    ELSE 1

\* the MAU of a row under the coefficients c (restrictive mode)
PerturbedMau(row, items, c) == PerturbedSum(row, items, c, LastZeroOf(row, items))

\* row p is in the Pareto set under the coefficients c: its utility is not 0 and no
\* row costs at most as much with strictly greater utility
ParetoUnder(rows, p, items, c) ==
    /\ ~REq(PerturbedMau(rows[p], items, c), Zero)
    /\ ~\E q \in 1..Len(rows) :
          /\ RLe(rows[q].price, rows[p].price)
          /\ RGt(PerturbedMau(rows[q], items, c), PerturbedMau(rows[p], items, c))

\* generate_tradespace(sensitive_analysis=True) has returned in this step
SweepReturns ==
    /\ last_call' = [op |-> "generate_tradespace", args |-> <<TRUE>>]
    /\ err' = "none"

\* C16: after generate_tradespace with sensitivity analysis, the row at an index has
\* near_pareto true if and only if the design at that index was Pareto under at least
\* one of the perturbed weight combinations of the sweep, and false otherwise
NearParetoIffSomeCombination ==
    [][SweepReturns =>
          \A p \in 1..Len(tradespace_df'.rows) :
             /\ tradespace_df'.rows[p].near_pareto \in {"True", "False"}
             /\ tradespace_df'.rows[p].near_pareto = "True"
                   <=> \E c \in Perturbations(performance_items) :
                          ParetoUnder(tradespace_df'.rows, p, performance_items, c)]_vars

\* a design that is not Pareto under the registered weights and is under perturbed ones
NearParetoIffSomeCombinationWitness ==
    /\ last_call = [op |-> "generate_tradespace", args |-> <<TRUE>>]
    /\ err = "none"
    /\ \E p \in RowIds : Row(p).near_pareto = "True" /\ Row(p).pareto = "False"

\* the MAU values row p takes over the combinations of the sweep
SweptMaus(rows, p, items) ==
    {PerturbedMau(rows[p], items, c) : c \in Perturbations(items)}

\* C17: after generate_tradespace with sensitivity analysis, min_mau of every design
\* point is the minimum and max_mau the maximum of the MAU values the point takes over
\* the weight combinations of the sweep, the product of {1-r, 1, 1+r} over the attributes
MinMaxOverCombinations ==
    [][SweepReturns =>
          \A p \in 1..Len(tradespace_df'.rows) :
             /\ tradespace_df'.rows[p].min_mau
                   \in SweptMaus(tradespace_df'.rows, p, performance_items)
             /\ tradespace_df'.rows[p].max_mau
                   \in SweptMaus(tradespace_df'.rows, p, performance_items)
             /\ \A m \in SweptMaus(tradespace_df'.rows, p, performance_items) :
                   \/ IsNaN(m)
                   \/ /\ RLe(tradespace_df'.rows[p].min_mau, m)
                      /\ RGe(tradespace_df'.rows[p].max_mau, m)]_vars

\* a design whose MAU under the registered weights lies strictly between its bounds
MinMaxOverCombinationsWitness ==
    /\ last_call = [op |-> "generate_tradespace", args |-> <<TRUE>>]
    /\ err = "none"
    /\ Len(performance_items) = 2
    /\ \E p \in RowIds : RLt(Row(p).min_mau, Row(p).mau) /\ RLt(Row(p).mau, Row(p).max_mau)

\* C18: for any registered attributes with weights in [0, 1] summing to at most 1, the
\* weights written in every turn of the sweep sum to 1, so generate_tradespace with
\* sensitivity analysis never ends on the sum assertion
SweepNeverFailsAssertion ==
    (/\ last_call = [op |-> "generate_tradespace", args |-> <<TRUE>>]
     /\ performance_items # <<>>)
        => err # "AssertionError"

-----------------------------------------------------------------------------
(* Properties of the failure of the solver *)

\* every row has its derived, SAU, mau and pareto cells
FullyPopulated ==
    /\ DerivedColumns \cup {"mau", "pareto"} \subseteq tradespace_df.derived
    /\ tradespace_df.sau = {performance_items[i].name : i \in 1..Len(performance_items)}
    /\ \A p \in RowIds :
          /\ ~IsNaN(Row(p).mass) /\ ~IsNaN(Row(p).price)
          /\ Row(p).pareto \in {"True", "False"}

\* what the solver can yield for the designs of the table
Outcomes == [DOMAIN physics -> {NotConverged, Converged(One, One)}]

\* the message tells the failed row i from every other row the solver can fail at
IdentifiesRow(i) ==
    \A phys \in Outcomes :
        FailedRow(phys, tradespace_df.rows, 1) \notin {0, i}
           => SolverException(
                 phys[Row(FailedRow(phys, tradespace_df.rows, 1)).design].ier)
                 # solver_error

\* C20: generate_tradespace either completes with a fully populated table or aborts
\* with an error; when the solver does not converge for a design point the error
\* identifies that design point, no default values are written for it, and no utility,
\* Pareto or sensitivity step runs
CompletesOrAbortsIdentified ==
    last_call.op = "generate_tradespace" =>
        /\ err = "none" => FullyPopulated
        /\ solver_error # <<>> =>
              /\ err # "none"
              /\ IdentifiesRow(Len(uav_list) + 1)
              /\ IsNaN(Row(Len(uav_list) + 1).mass)
              /\ \A n \in Names : IsNaN(Row(Len(uav_list) + 1).raw[n])
              /\ tradespace_df.sau = {}
              /\ tradespace_df.derived \cap {"mau", "pareto", "near_pareto"} = {}

-----------------------------------------------------------------------------
(* Properties of the table the sensitivity analysis returns *)

\* generate_tradespace(sensitive_analysis=True) has returned
SweepReturned ==
    /\ last_call = [op |-> "generate_tradespace", args |-> <<TRUE>>]
    /\ err = "none"

ParetoIsNearPareto ==
    SweepReturned =>
        \A p \in RowIds : Row(p).pareto = "True" => Row(p).near_pareto = "True"

\* a returned analysis whose second design is Pareto in the final table and whose first
\* design never is
ParetoIsNearParetoWitness ==
    /\ SweepReturned
    /\ Len(tradespace_df.rows) >= 2
    /\ Row(2).pareto = "True"
    /\ Row(1).near_pareto = "False"

-----------------------------------------------------------------------------
(* Properties of the Pareto flags of undefined utilities *)

\* C29: after generate_performance_tradespace, every design point flagged pareto has a
\* defined MAU strictly greater than 0: a design whose MAU is NaN is never flagged
ParetoHasPositiveMau ==
    (last_call.op = "generate_performance_tradespace" /\ err = "none") =>
        \A p \in RowIds :
            Row(p).pareto = "True" => ~IsNaN(Row(p).mau) /\ RGt(Row(p).mau, Zero)

-----------------------------------------------------------------------------
(* Properties of the re-registration of a performance attribute *)

\* the total of the weights registered under the other names
WeightOfOthers(items, name) ==
    SumWeights(SelectSeq(items, LAMBDA e : e.name # name))

\* C30: re-registering an existing name with add_performance_variable is accepted
\* whenever the bounds and the weight are valid and the weight total after the
\* replacement, the old weight of the name not counted, is at most 1; the entry of the
\* name is then the new one
ReRegistrationAccepted ==
    \A n \in Names, min_value \in Values, max_value \in Values, u \in Units, w \in Weights :
        (/\ HasName(performance_items, n)
         /\ RLt(min_value, max_value)
         /\ RGe(w, Zero) /\ RLe(w, One)
         /\ RLe(RAdd(WeightOfOthers(performance_items, n), w), One))
            => /\ AddPerformanceVariable(performance_items, n, min_value, max_value,
                                         u, w).err = "none"
               /\ \E i \in 1..Len(performance_items) :
                     AddPerformanceVariable(performance_items, n, min_value, max_value,
                                            u, w).items[i]
                        = [name |-> n, min_value |-> min_value, max_value |-> max_value,
                           units |-> u, weight |-> w]

-----------------------------------------------------------------------------
(* Properties of the propulsion model *)

\* a mode function returned its results for the UAV
ModeReturned(op) == last_call.op = op /\ err = "none"

\* C24: in hover, max-thrust and max-payload mode alike, the ESC voltage returned is
\* Ub - Ib * Rb for the battery current Ib = nr * Ie + Icontrol that the mode returns,
\* and the ESC current returned is duty * Im
EscVoltageFromBatteryCurrent ==
    (\E op \in {"calculate_hover_mode", "calculate_max_thrust_mode",
                "calculate_max_payload_mode"} : ModeReturned(op))
        => /\ returned.Ib = battery_current(uav_list[1].nr, returned.Ie,
                                            uav_list[1].Icontrol)
           /\ returned.Ue = RSub(uav_list[1].Ub, RMul(returned.Ib, uav_list[1].Rb))
           /\ returned.Ie = RMul(returned.sigma, returned.Im)

\* C25: hover mode on positive inputs returns torque = propeller_torque(speed),
\* voltage = motor_voltage(torque, speed), current = motor_current(torque),
\* duty = (Um + Im * Re) / Ub, and a thrust per rotor of G / nr
HoverRelationsHold ==
    (ModeReturned("calculate_hover_mode") /\ RGt(uav_list[1].G, Zero))
        => /\ returned.T = RDiv(uav_list[1].G, uav_list[1].nr)
           /\ returned.M = propeller_torque(uav_list[1], returned.N)
           /\ returned.Um = motor_voltage(uav_list[1], returned.M, returned.N)
           /\ returned.Im = motor_current(uav_list[1], returned.M)
           /\ returned.sigma = RDiv(RAdd(returned.Um, RMul(returned.Im, uav_list[1].Re)),
                                    uav_list[1].Ub)

\* the endurance at a sampled pitch from the duty cycle (Um + Im * Re) / Ub as it is
UnclampedEnduranceAt(pitch, uav) ==
    LET rpm == propeller_speed_by_pitch(pitch, uav)
        torque == propeller_torque_by_pitch(pitch, uav)
        Um == motor_voltage(uav, torque, rpm)
        Im == motor_current(uav, torque)
        sigma == RDiv(RAdd(Um, RMul(Im, uav.Re)), uav.Ub)
    IN  battery_endurance(battery_current(uav.nr, RMul(sigma, Im), uav.Icontrol),
                          uav.Cb, uav.Cmin)

\* C26: the range that calculate_vel_and_distance returns is the largest of
\* 60 * speed * endurance over the sampled pitches, the endurance of each pitch coming
\* from its unclamped duty cycle, a duty cycle above 1 included
EnduranceFromUnclampedDuty ==
    (ModeReturned("calculate_vel_and_distance") /\ ~IsNaN(returned.max_distance))
        => returned.max_distance =
               NpMax([k \in 1..Len(last_call.args[2]) |->
                         RMul(RMul(Num(60), last_call.args[2][k]),
                              UnclampedEnduranceAt(linspace(last_call.args[1])[k],
                                                   uav_list[1]))])

\* the cosine of weight / (thrust * n_rotors) brought into [-1, 1]: above 1 it is 1,
\* below -1 it is -1
Clamped(x) == IF RGt(x, One) THEN One ELSE IF RLt(x, Num(-1)) THEN Num(-1) ELSE x

\* C22: max-payload mode returns a max_payload that is not negative, and a max_pitch
\* that is arccos of G / (T * nr) clamped into [-1, 1], above 1 to 1 and below -1 to -1
PayloadAndPitchClamped ==
    ModeReturned("calculate_max_payload_mode")
        => /\ RGe(returned.max_payload, Zero)
           /\ returned.max_pitch =
                  arccos(Clamped(RDiv(uav_list[1].G, RMul(returned.T, uav_list[1].nr))))

\* a design was evaluated and its performance cells were written
DesignEvaluated == ModeReturned("calculate_performance")

\* C21: the max_payload cell of an evaluated design is the maximum payload of
\* max-payload mode, max(0, (T * nr - G) / g), in kg as the mode computes it: nothing
\* divides it by g a second time on its way into the table
MaxPayloadStoredAsComputed ==
    DesignEvaluated
        => /\ tradespace_df.max_payload = uav_list[1].payload.max_payload
           /\ \/ /\ RLe(RSub(RMul(uav_list[1].payload.T, uav_list[1].nr), uav_list[1].G),
                        Zero)
                 /\ uav_list[1].payload.max_payload = Zero
              \/ uav_list[1].payload.max_payload =
                     RDiv(RSub(RMul(uav_list[1].payload.T, uav_list[1].nr),
                               uav_list[1].G),
                          UAVModel_g)

\* C23: calculate_vel_and_distance on a max_pitch that is None, NaN or not above 0
\* returns NaN for the range and for the speed and raises nothing; and an evaluated
\* design whose max-payload thrust T * nr does not exceed its weight G has
\* max_payload 0, max_pitch 0, and NaN in its max_speed and max_flight_distance cells
InvalidPitchYieldsNaN ==
    /\ (/\ last_call.op = "calculate_vel_and_distance"
        /\ \/ IsNaN(last_call.args[1].cos)
           \/ last_call.args[1] = arccos(One))
           => /\ err = "none"
              /\ IsNaN(returned.max_distance)
              /\ IsNaN(returned.max_velocity)
    /\ (/\ DesignEvaluated
        /\ RLe(RMul(uav_list[1].payload.T, uav_list[1].nr), uav_list[1].G))
           => /\ uav_list[1].max_payload = Zero
              /\ uav_list[1].max_pitch = arccos(One)
              /\ IsNaN(tradespace_df.max_speed)
              /\ IsNaN(tradespace_df.max_flight_distance)

\* a design whose thrust at the safe duty cycle stays below its weight was evaluated:
\* its speed and distance cells are NaN, its flight time is not
InvalidPitchYieldsNaNWitness ==
    /\ DesignEvaluated
    /\ RLt(RMul(uav_list[1].payload.T, uav_list[1].nr), uav_list[1].G)
    /\ IsNaN(tradespace_df.max_speed)
    /\ IsNaN(tradespace_df.max_flight_distance)
    /\ ~IsNaN(tradespace_df.max_flight_time)
    /\ tradespace_df.max_payload = Zero

====
